---- MODULE Spec2Model ----
(***************************************************************************)
(* Model of zwaves_primitives/src/hasher.rs: PedersenHasher::compress,     *)
(* PedersenHasher::root and PedersenHasher::update_root.                    *)
(*                                                                         *)
(* Field elements are symbolic terms.  The Pedersen hash is an injective   *)
(* term constructor of (personalization, left, right).  The working frame  *)
(* of update_root is a vector of references, as in the source: each slot   *)
(* names the object it points at, and a slot that points at the local      *)
(* `res` of an inner-loop iteration dangles once that iteration has ended. *)
(***************************************************************************)
EXTENDS Integers, Sequences, FiniteSets, TLC

\* ------------------------------------------------------------------ bounds
\* Largest height (= len(path) + 1) of the trees calls are made on.
MaxHeight == 3
\* Largest number of elements in a batch.
MaxBatch == 2
\* Largest height of the trees root is called on.
MaxTreeHeight == 4

\* Width in bits of u32 (hasher.rs:79, `as u32` and u32::pow).
U32Bits == 32

VARIABLES
    target,         \* "wasm32" | "x86_64": usize has 32 or 64 bits
    build,          \* "debug" | "release": overflow checks on or off
    ub,             \* "intact" while every read through a dangling reference
                    \* of the call has found the stored value, else "disturbed"
    op,             \* "none" | "update_root" | "root"
    pc,             \* position in the running function
    panicMsg,       \* message of the panic that ended the call
    result,         \* value returned by the call
    \* update_root: arguments
    path, index, elements, merkle_defaults,
    \* update_root: locals
    s, height, offset, memframesz, memframe, i, j,
    resSlot,        \* content of the stack slot of the local `res`
    \* root: arguments and fold state
    rpath, list, res, num,
    \* history of the running call
    nodeHeight,     \* height above the leaves of the nodes being combined
    comps,          \* <<tag, nodeHeight>> of every compression performed
    reads,          \* frame slots dereferenced by the last step
    prevFrame,      \* the frame as it was when the current level started
    prevSize,       \* memframesz when the current level started
    shadow,         \* the new level built in a separate buffer from prevFrame
    treeH, treeP    \* root: height of the tree and position of the leaf

vars == <<target, build, ub, op, pc, panicMsg, result, path, index, elements,
          merkle_defaults, s, height, offset, memframesz, memframe, i, j,
          resSlot, rpath, list, res, num, nodeHeight, comps, reads,
          prevFrame, prevSize, shadow, treeH, treeP>>

urVars == <<path, index, elements, merkle_defaults>>
rootArgs == <<rpath, list, treeH, treeP>>

\* ------------------------------------------------------------------ values
Zero == <<"zero">>
Junk == <<"junk">>
NoResult == <<"noresult">>
None == <<"None">>
Some(v) == <<"Some", v>>
IsNone(o) == o[1] = "None"
Unwrap(o) == o[2]

MerkleTree(n) == n

\* hasher.rs:41-47.  The left bits come first; the result depends on the
\* personalization and on both inputs.
compress(left, right, p) == <<"H", p, left, right>>

Shr(x, n) == x \div (2 ^ n)
Bit(x, n) == Shr(x, n) % 2

\* ------------------------------------------------------------ machine words
\* A usize or u32 value is kept as its bits, least significant first, in a
\* vector wide enough for every sum of the model (2^64 + MaxBatch).
NatBits == 2 * U32Bits + 2
BitPos == 1 .. NatBits
\* Bits that a TLC integer holds exactly.
SmallBits == U32Bits - 2
LowBits == U32Bits \div 2

Word(n) == [k \in BitPos |-> IF k > SmallBits THEN 0 ELSE (n \div 2 ^ (k - 1)) % 2]
Pow2(e) == [k \in BitPos |-> IF k = e + 1 THEN 1 ELSE 0]
AllOnes(w) == [k \in BitPos |-> IF k <= w THEN 1 ELSE 0]
Truncate(a, w) == [k \in BitPos |-> IF k <= w THEN a[k] ELSE 0]
Fits(a, w) == \A k \in BitPos : k > w => a[k] = 0
BitOf(a, n) == IF n + 1 <= NatBits THEN a[n + 1] ELSE 0
ShrBits(a, n) == [k \in BitPos |-> IF k + n <= NatBits THEN a[k + n] ELSE 0]
Leq(a, b) ==
    \/ a = b
    \/ \E k \in BitPos : a[k] < b[k] /\ \A m \in k + 1 .. NatBits : a[m] = b[m]

RECURSIVE BitsValue(_, _)
BitsValue(a, k) == IF k = 0 THEN 0 ELSE a[k] * 2 ^ (k - 1) + BitsValue(a, k - 1)
WordValue(a) == BitsValue(a, SmallBits)
Low(a) == BitsValue(a, LowBits)

\* a + n for a small n, exact (no width applied).
AddSmall(a, n) ==
    LET lo == Low(a) + n
        c == lo \div 2 ^ LowBits
        r == lo % 2 ^ LowBits
        p == CHOOSE k \in LowBits + 1 .. NatBits :
                 a[k] = 0 /\ \A m \in LowBits + 1 .. k - 1 : a[m] = 1
    IN [k \in BitPos |->
          IF k <= LowBits THEN (r \div 2 ^ (k - 1)) % 2
          ELSE IF c = 0 THEN a[k]
          ELSE IF k < p THEN 0
          ELSE IF k = p THEN 1
          ELSE a[k]]

Targets == {"wasm32", "x86_64"}
\* Width in bits of usize on a target.
UsizeBitsOf(tg) == IF tg = "wasm32" THEN U32Bits ELSE 2 * U32Bits
UsizeBits == UsizeBitsOf(target)

\* A tree given by its leaves: positions below idx hold distinct values,
\* the n positions from idx hold the batch (new) or the values it replaces,
\* every later position is empty.
LeafOf(t, q) ==
    IF q < t.idx THEN <<"L", q>>
    ELSE IF q < t.idx + t.n THEN (IF t.new THEN <<"N", q - t.idx>> ELSE <<"O", q>>)
    ELSE Zero

\* Bottom-up build as in test_root_2 (hasher.rs:172-182): two nodes of height
\* k - 1 are combined with MerkleTree(k - 1).
RECURSIVE NodeOf(_, _, _)
NodeOf(t, k, pos) ==
    IF k = 0 THEN LeafOf(t, pos)
    ELSE compress(NodeOf(t, k - 1, 2 * pos), NodeOf(t, k - 1, 2 * pos + 1),
                  MerkleTree(k - 1))

\* Sibling of the height-k ancestor of leaf q.
SiblingOf(t, k, q) ==
    NodeOf(t, k, IF Bit(q, k) = 1 THEN Shr(q, k) - 1 ELSE Shr(q, k) + 1)

\* Hash of a fully empty subtree of height k.
RECURSIVE EmptyRoot(_)
EmptyRoot(k) ==
    IF k = 0 THEN Zero
    ELSE compress(EmptyRoot(k - 1), EmptyRoot(k - 1), MerkleTree(k - 1))

\* ------------------------------------------------------------------ frame
\* A frame slot is a reference.  kind names what it points at.
Ref(kind, k, v) == [kind |-> kind, lvl |-> 0, j |-> k, v |-> v]
ResRef(lvl, k, v) == [kind |-> "res", lvl |-> lvl, j |-> k, v |-> v]
ZeroRef == Ref("zero", 0, Zero)
NoRef == Ref("unset", 0, Zero)
\* What a slot refers to, apart from the value found there.
RefId(c) == [kind |-> c.kind, lvl |-> c.lvl, j |-> c.j]

Slot(f, k) == f[k + 1]
SetSlot(f, k, c) == [f EXCEPT ![k + 1] = c]
InFrame(f, k) == k >= 0 /\ k < Len(f)

\* Field elements of other objects of the call that a read through a dead
\* reference may find in its place: the local zero (hasher.rs:83) and the
\* entries of elements, path and merkle_defaults, which the frame refers to
\* (hasher.rs:86, :89, :101, :105).
StaleValues ==
    {Zero} \cup {elements[k] : k \in 1 .. Len(elements)}
           \cup {path[k] : k \in 1 .. Len(path)}
           \cup {merkle_defaults[k] : k \in 1 .. Len(merkle_defaults)}

\* What a read through a reference to a dead `res` may find: the value once
\* stored, what the stack slot of `res` holds now, a field element of
\* another object of the call, or garbage.
DanglingOutcomes ==
    {<<"intact">>, <<"reused">>, <<"junk">>}
        \cup {<<"other", v>> : v \in StaleValues}

\* The outcomes of a read of slot c: a live reference has one.
OutcomesOf(c) == IF c.kind = "res" THEN DanglingOutcomes ELSE {<<"intact">>}

\* Dereference of a frame slot.  A slot that points at `res` is read after
\* the iteration that owned `res` has ended (hasher.rs:95-96).  Each read has
\* an outcome o of its own.
Deref(c, o) ==
    IF c.kind # "res" THEN c.v
    ELSE CASE o[1] = "intact" -> c.v
           [] o[1] = "reused" -> resSlot
           [] o[1] = "other" -> o[2]
           [] OTHER -> Junk

\* The read of slot c with outcome o found something else than was stored.
Disturbed(c, o) == Deref(c, o) # c.v

\* ------------------------------------------------------------- arithmetic
\* hasher.rs:79: index + s in usize, the cast to u32, u32::pow(2, e).  With
\* overflow checks (debug) an overflow panics, without them it wraps.
AsU32(x) == Truncate(x, U32Bits)
UsizeAddOverflows(a, b) == ~Fits(AddSmall(a, b), UsizeBits)
UsizeAdd(a, b) == Truncate(AddSmall(a, b), UsizeBits)
U32Pow2Overflows(e) == e >= U32Bits
U32Pow2(e) == Truncate(Pow2(e), U32Bits)

\* hasher.rs:79, the asserted condition.
WithinCapacity(idx, n, h) == Leq(AsU32(UsizeAdd(idx, n)), U32Pow2(h - 1))

\* hasher.rs:93: a shift by the width of usize or more panics with overflow
\* checks and is taken modulo the width without them.
ShiftOverflows(lvl) == lvl >= UsizeBits

\* hasher.rs:81 and :93, (index >> lvl) & 0x1
OffsetAt(idx, lvl) == BitOf(idx, lvl % UsizeBits)

\* hasher.rs:94, number of inner iterations of a level
PairCount(sz) == Shr(sz + 1, 1)

\* Variant of DestSlot that stores one slot further.
DestSlotShifted(k, off) == k + off + 1

\* hasher.rs:96, the slot the j-th result of a level is stored in
DestSlot(k, off) == k + off

\* hasher.rs:99
NewSize(off, sz) == off + Shr(sz + 1, 1)

\* hasher.rs:95, the personalization of the compressions of level lvl
LevelTag(lvl) == MerkleTree(lvl)

\* hasher.rs:71, the personalization of fold step n
RootTag(n) == MerkleTree(n)

\* ------------------------------------------------------------------ inputs
Builds == {"debug", "release"}
Heights == 1 .. MaxHeight
\* Heights of the trees root is called on.
TreeHeights == 1 .. MaxTreeHeight
\* The least height whose capacity 2^(height-1) does not fit u32.
TopHeight == U32Bits + 1
\* Heights of the calls made with indexes around the width of a word.
WidthHeights == {1, 2, TopHeight}
BatchSizes == 0 .. MaxBatch
\* Batch sizes that carry an index around the largest u32 or usize to and
\* past the point where index + s wraps.
WrapBatchSizes == 0 .. 2
\* Indexes inside and just past the capacity of the trees.
SmallIndexes == 0 .. 2 ^ (MaxHeight - 1)
\* Indexes around the largest u32 and the largest usize.
BigIndexes ==
    {Word(0), Word(1),
     [AllOnes(U32Bits) EXCEPT ![1] = 0],
     AllOnes(U32Bits), Pow2(U32Bits), AddSmall(Pow2(U32Bits), 1),
     Pow2(U32Bits + 1), AllOnes(2 * U32Bits)}

\* The tree an update_root call is made on, and the tree it must produce.
CurTree(idx, n) == [idx |-> idx, n |-> n, new |-> FALSE]
NewTree(idx, n) == [idx |-> idx, n |-> n, new |-> TRUE]
\* The tree a root call is made on: 2^(h-1) distinct leaves.
FullTree(h) == [idx |-> 2 ^ (h - 1), n |-> 0, new |-> FALSE]

\* path[k] is the sibling of the height-k ancestor of leaf idx (0-based k).
PathOf(h, idx, n) == [k \in 1 .. h - 1 |-> SiblingOf(CurTree(idx, n), k - 1, idx)]
ElementsOf(n) == [k \in 1 .. n |-> <<"N", k - 1>>]
DefaultsOf(len) == [k \in 1 .. len |-> EmptyRoot(k - 1)]

\* Arguments that stand in no relation to a tree.
AnyPath(h) == [k \in 1 .. h - 1 |-> <<"P", k - 1>>]
AnyDefaults(len) == [k \in 1 .. len |-> <<"D", k - 1>>]

\* test_update_root, hasher.rs:199-215.  tree[q] = hash_bits(str_to_bin(q+1))
\* is the value <<"L", q>>.
TestLeaf(q) == <<"L", q>>
TestNode8 == compress(TestLeaf(0), TestLeaf(1), MerkleTree(0))
TestNode9 == compress(TestLeaf(2), TestLeaf(3), MerkleTree(0))
TestNode10 == compress(Zero, Zero, MerkleTree(0))
TestNode11 == compress(Zero, TestLeaf(7), MerkleTree(0))
TestNode12 == compress(TestNode8, TestNode9, MerkleTree(1))
TestNode13 == compress(TestNode10, TestNode11, MerkleTree(1))
TestPath == <<TestLeaf(2), TestNode8, TestNode13>>
TestElements == <<TestLeaf(4), TestLeaf(5), TestLeaf(6)>>
TestDefaultsLen == 256
TestDefaults == [k \in 1 .. TestDefaultsLen |-> compress(Zero, Zero, MerkleTree(0))]
TestIndex == Word(4)

\* test_root, hasher.rs:149-155
TestRootPath ==
    <<Some(<<TestLeaf(0), TRUE>>), Some(<<TestLeaf(1), FALSE>>),
      Some(<<TestLeaf(2), FALSE>>)>>
TestRootLeaf == Some(TestLeaf(4))

Init ==
    /\ target = "x86_64"
    /\ build = "debug"
    /\ ub = "intact"
    /\ op = "none" /\ pc = "idle" /\ panicMsg = "" /\ result = NoResult
    /\ path = <<>> /\ index = Word(0) /\ elements = <<>> /\ merkle_defaults = <<>>
    /\ s = 0 /\ height = 0 /\ offset = 0 /\ memframesz = 0 /\ memframe = <<>>
    /\ i = 0 /\ j = 0 /\ resSlot = Zero
    /\ rpath = <<>> /\ list = None /\ res = None /\ num = 0
    /\ nodeHeight = 0 /\ comps = <<>> /\ reads = {}
    /\ prevFrame = <<>> /\ prevSize = 0 /\ shadow = <<>>
    /\ treeH = 0 /\ treeP = 0

Idle == pc = "idle"
Ended == pc \in {"done", "panic"}

\* Everything a call starts from, apart from its arguments.
Fresh(o, p) ==
    /\ op' = o /\ pc' = p /\ panicMsg' = "" /\ result' = NoResult
    /\ s' = 0 /\ height' = 0 /\ offset' = 0 /\ memframesz' = 0 /\ memframe' = <<>>
    /\ i' = 0 /\ j' = 0 /\ resSlot' = Zero
    /\ res' = None /\ num' = 0
    /\ nodeHeight' = 0 /\ comps' = <<>> /\ reads' = {}
    /\ prevFrame' = <<>> /\ prevSize' = 0 /\ shadow' = <<>>

Panic(msg) ==
    /\ pc' = "panic" /\ panicMsg' = msg
    /\ UNCHANGED <<target, build, ub, op, result, urVars, rootArgs, s, height, offset,
                   memframesz, memframe, i, j, resSlot, res, num, nodeHeight,
                   comps, reads, prevFrame, prevSize, shadow>>

\* ------------------------------------------------------------- update_root
\* A caller invokes update_root (hasher.rs:76) in a program compiled for
\* some target, with or without overflow checks.  The index is a usize of
\* that target.
CallUpdateRoot(tg, b, pth, idx, elems, defs) ==
    /\ Idle
    /\ target' = tg
    /\ build' = b
    /\ ub' = "intact"
    /\ Fits(idx, UsizeBitsOf(target'))
    /\ path' = pth
    /\ index' = idx
    /\ elements' = elems
    /\ merkle_defaults' = defs
    /\ rpath' = <<>> /\ list' = None /\ treeH' = 0 /\ treeP' = 0
    /\ Fresh("update_root", "ur_assert")

\* hasher.rs:77-79
UrAssert ==
    /\ pc = "ur_assert"
    /\ LET n == Len(elements)
           h == Len(path) + 1
       IN IF build = "debug" /\ UsizeAddOverflows(index, n)
            THEN Panic("attempt to add with overflow")
          ELSE IF build = "debug" /\ U32Pow2Overflows(h - 1)
            THEN Panic("attempt to multiply with overflow")
          ELSE IF ~WithinCapacity(index, n, h)
            THEN Panic("too many elements")
          ELSE /\ s' = n /\ height' = h /\ pc' = "ur_init"
               /\ UNCHANGED <<target, build, ub, op, panicMsg, result, urVars, rootArgs,
                              offset, memframesz, memframe, i, j, resSlot, res,
                              num, nodeHeight, comps, reads, prevFrame, prevSize,
                              shadow>>

\* hasher.rs:81-90
UrInit ==
    /\ pc = "ur_init"
    /\ LET off == OffsetAt(index, 0)
           sz == s + off
           f0 == [k \in 1 .. sz + 1 |->
                    IF k - 1 >= off /\ k - 1 < off + s
                    THEN Ref("elements", k - 1 - off, elements[k - off])
                    ELSE ZeroRef]
       IN IF off > 0 /\ Len(path) = 0
            THEN Panic("index out of bounds: path")
          ELSE /\ offset' = off
               /\ memframesz' = sz
               /\ memframe' = IF off > 0 THEN SetSlot(f0, 0, Ref("path", 0, path[1]))
                               ELSE f0
               /\ i' = 1
               /\ pc' = "ur_level"
               /\ UNCHANGED <<target, build, ub, op, panicMsg, result, urVars, rootArgs,
                              s, height, j, resSlot, res, num, nodeHeight, comps,
                              reads, prevFrame, prevSize, shadow>>

\* hasher.rs:92-93, the head of the outer loop
UrLevel ==
    /\ pc = "ur_level"
    /\ IF i < height /\ build = "debug" /\ ShiftOverflows(i)
         THEN Panic("attempt to shift right with overflow")
         ELSE
           /\ IF i < height
                THEN /\ offset' = OffsetAt(index, i)
                     /\ j' = 0
                     /\ prevFrame' = memframe
                     /\ prevSize' = memframesz
                     /\ shadow' = [k \in 1 .. Len(memframe) |-> NoRef]
                     /\ pc' = "ur_inner"
                ELSE /\ pc' = "ur_ret"
                     /\ UNCHANGED <<offset, j, prevFrame, prevSize, shadow>>
           /\ reads' = {}
           /\ UNCHANGED <<target, build, ub, op, panicMsg, result, urVars, rootArgs,
                          s, height, memframesz, memframe, i, resSlot, res, num,
                          nodeHeight, comps>>

\* hasher.rs:94-97, one iteration of the inner loop
UrInner ==
    /\ pc = "ur_inner"
    /\ IF j < PairCount(memframesz)
         THEN IF ~InFrame(memframe, 2 * j + 1) \/ ~InFrame(memframe, DestSlot(j, offset))
                THEN Panic("index out of bounds: memframe")
              ELSE
                \E oa \in OutcomesOf(Slot(memframe, 2 * j)),
                   ob \in OutcomesOf(Slot(memframe, 2 * j + 1)) :
                LET a == Slot(memframe, 2 * j)
                    b == Slot(memframe, 2 * j + 1)
                    r == compress(Deref(a, oa), Deref(b, ob), LevelTag(i))
                    sa == Slot(prevFrame, 2 * j)
                    sb == Slot(prevFrame, 2 * j + 1)
                    sr == compress(Deref(sa, oa), Deref(sb, ob), LevelTag(i))
                IN /\ memframe' = SetSlot(memframe, DestSlot(j, offset), ResRef(i, j, r))
                   /\ resSlot' = r
                   /\ ub' = IF Disturbed(a, oa) \/ Disturbed(b, ob)
                             THEN "disturbed" ELSE ub
                   /\ shadow' = SetSlot(shadow, j + offset, ResRef(i, j, sr))
                   /\ reads' = {[c |-> RefId(a), lvl |-> i, j |-> j],
                               [c |-> RefId(b), lvl |-> i, j |-> j]}
                   /\ comps' = Append(comps, <<LevelTag(i), nodeHeight>>)
                   /\ j' = j + 1
                   /\ UNCHANGED <<target, build, op, pc, panicMsg, result, urVars,
                                  rootArgs, s, height, offset, memframesz, i, res,
                                  num, nodeHeight, prevFrame, prevSize>>
         ELSE /\ pc' = "ur_post"
              /\ reads' = {}
              /\ UNCHANGED <<target, build, ub, op, panicMsg, result, urVars, rootArgs, s,
                             height, offset, memframesz, memframe, i, j, resSlot,
                             res, num, nodeHeight, comps, prevFrame, prevSize,
                             shadow>>

\* hasher.rs:99-106, the tail of one pass of the outer loop
UrPost ==
    /\ pc = "ur_post"
    /\ LET sz == NewSize(offset, memframesz)
           odd == sz % 2 = 1
           Fill(f) ==
               LET f1 == IF odd
                         THEN SetSlot(f, sz, Ref("defaults", i, merkle_defaults[i + 1]))
                         ELSE f
               IN IF offset > 0 THEN SetSlot(f1, 0, Ref("path", i, path[i + 1])) ELSE f1
       IN IF odd /\ i >= Len(merkle_defaults)
            THEN Panic("index out of bounds: merkle_defaults")
          ELSE IF odd /\ ~InFrame(memframe, sz)
            THEN Panic("index out of bounds: memframe")
          ELSE IF offset > 0 /\ i >= Len(path)
            THEN Panic("index out of bounds: path")
          ELSE /\ memframesz' = sz
               /\ memframe' = Fill(memframe)
               /\ shadow' = Fill(shadow)
               /\ nodeHeight' = nodeHeight + 1
               /\ i' = i + 1
               /\ pc' = "ur_level"
               /\ UNCHANGED <<target, build, ub, op, panicMsg, result, urVars, rootArgs,
                              s, height, offset, j, resSlot, res, num, comps,
                              reads, prevFrame, prevSize>>

\* hasher.rs:109-110: the value read through slot 0 is returned and the
\* frame and the other locals are gone.
UrReturn ==
    /\ pc = "ur_ret"
    /\ \E o \in OutcomesOf(Slot(memframe, 0)) :
          /\ result' = Deref(Slot(memframe, 0), o)
          /\ ub' = IF Disturbed(Slot(memframe, 0), o) THEN "disturbed" ELSE ub
    /\ reads' = {[c |-> RefId(Slot(memframe, 0)), lvl |-> height, j |-> 0]}
    /\ pc' = "done"
    /\ memframe' = <<>> /\ resSlot' = Zero
    /\ prevFrame' = <<>> /\ shadow' = <<>>
    /\ UNCHANGED <<target, build, op, panicMsg, urVars, rootArgs, s, height, offset,
                   memframesz, i, j, res, num, nodeHeight, comps, prevSize>>

\* -------------------------------------------------------------------- root
\* The authentication path of leaf q in the full tree of height h, with the
\* entries at the positions in `absent` missing.  The position bit is true
\* when the sibling is the left child.
RootPathOf(h, q, absent) ==
    [k \in 1 .. h - 1 |->
        IF k \in absent THEN None
        ELSE Some(<<SiblingOf(FullTree(h), k - 1, q), Bit(q, k - 1) = 1>>)]

\* A caller invokes root (hasher.rs:49); h and q name the tree and the leaf
\* the arguments were taken from (h = 0: from no tree).
CallRoot(pth, lst, h, q) ==
    /\ Idle
    /\ rpath' = pth
    /\ list' = lst
    /\ treeH' = h /\ treeP' = q
    /\ UNCHANGED <<urVars, target, build, ub>>
    /\ Fresh("root", "root_check")

\* Variant of Incomplete that looks at the leaf only.
IncompleteLeafOnly(pth, lst) == IsNone(lst)

\* hasher.rs:50, list.is_none() || path.iter().any(|s| s.is_none())
Incomplete(pth, lst) == IsNone(lst) \/ \E k \in 1 .. Len(pth) : IsNone(pth[k])

\* hasher.rs:59-69, the two inputs of the compression of one fold step
RootSlots(sipling, pos_bit, prev_or_list) ==
    [left |-> IF pos_bit THEN sipling ELSE prev_or_list,
     right |-> IF pos_bit THEN prev_or_list ELSE sipling]

\* hasher.rs:57, res.or(list)
OptionOr(a, b) == IF IsNone(a) THEN b ELSE a

\* hasher.rs:50-53: incomplete input returns None, otherwise the fold starts
\* from None.
RootCheck ==
    /\ pc = "root_check"
    /\ IF Incomplete(rpath, list)
         THEN /\ result' = None /\ pc' = "done"
         ELSE /\ result' = result /\ pc' = "root_fold"
    /\ res' = None /\ num' = 0
    /\ UNCHANGED <<target, build, ub, op, panicMsg, urVars, rootArgs, s, height, offset,
                   memframesz, memframe, i, j, resSlot, nodeHeight, comps, reads,
                   prevFrame, prevSize, shadow>>

\* hasher.rs:53-72, one step of the fold, or its end
RootFold ==
    /\ pc = "root_fold"
    /\ IF num < Len(rpath)
         THEN LET data == rpath[num + 1]
                  prev == OptionOr(res, list)
              IN IF IsNone(data) \/ IsNone(prev)
                   THEN Panic("called Option::unwrap() on a None value")
                 ELSE
                   LET sl == RootSlots(Unwrap(data)[1], Unwrap(data)[2], Unwrap(prev))
                   IN /\ res' = Some(compress(sl.left, sl.right, RootTag(num)))
                      /\ num' = num + 1
                      /\ comps' = Append(comps, <<RootTag(num), nodeHeight>>)
                      /\ nodeHeight' = nodeHeight + 1
                      /\ UNCHANGED <<target, build, ub, op, pc, panicMsg, result, urVars,
                                     rootArgs, s, height, offset, memframesz,
                                     memframe, i, j, resSlot, reads, prevFrame,
                                     prevSize, shadow>>
         ELSE /\ result' = res /\ pc' = "done"
              /\ UNCHANGED <<target, build, ub, op, panicMsg, urVars, rootArgs, s, height,
                             offset, memframesz, memframe, i, j, resSlot, res, num,
                             nodeHeight, comps, reads, prevFrame, prevSize, shadow>>

RootNext ==
    \/ \E h \in TreeHeights : \E q \in 0 .. 2 ^ (h - 1) - 1, absent \in SUBSET (1 .. h - 1),
                            present \in BOOLEAN :
          CallRoot(RootPathOf(h, q, absent),
                   IF present THEN Some(LeafOf(FullTree(h), q)) ELSE None, h, q)
    \/ CallRoot(TestRootPath, TestRootLeaf, 0, 0)
    \/ RootCheck \/ RootFold

\* The call has returned or panicked; the hasher keeps nothing of it
\* (hasher.rs:17-19: its only field is params) and the next call may come.
CallerResumes ==
    /\ Ended
    /\ path' = <<>> /\ index' = Word(0) /\ elements' = <<>> /\ merkle_defaults' = <<>>
    /\ rpath' = <<>> /\ list' = None /\ treeH' = 0 /\ treeP' = 0
    /\ target' = "x86_64" /\ build' = "debug" /\ ub' = "intact"
    /\ Fresh("none", "idle")

UpdateRootNext ==
    \* calls on a tree: no sum of theirs comes near the width of a word, so
    \* that one target and build show all they do
    \/ \E h \in Heights, x \in SmallIndexes, n \in BatchSizes :
          CallUpdateRoot("wasm32", "release", PathOf(h, x, n), Word(x),
                         ElementsOf(n), DefaultsOf(h))
    \* calls with any arguments around the width of a word, in every build
    \/ \E tg \in Targets, b \in Builds :
          \E h \in WidthHeights, idx \in BigIndexes :
             \E n \in (IF h = TopHeight THEN {0} ELSE WrapBatchSizes),
                dl \in (IF h = TopHeight THEN {h} ELSE {h - 1, h}) :
                CallUpdateRoot(tg, b, AnyPath(h), idx, ElementsOf(n), AnyDefaults(dl))
    \* the call of test_update_root, hasher.rs:215, in the test build
    \/ CallUpdateRoot("x86_64", "debug", TestPath, TestIndex, TestElements,
                      TestDefaults)
    \/ UrAssert \/ UrInit \/ UrLevel \/ UrInner \/ UrPost \/ UrReturn

Next == UpdateRootNext \/ RootNext \/ CallerResumes

Spec == Init /\ [][Next]_vars

\* ================================================================== claims
\* What the callers' contract says of the arguments, in unbounded integers.
BatchFits == Leq(AddSmall(index, Len(elements)), Pow2(Len(path)))
\* The arguments are those of the contract: the path holds the siblings of
\* the ancestors of leaf index in a tree whose leaves after the batch are
\* empty, and defaults[k] is the hash of the empty subtree of height k.
FromTree ==
    /\ Len(path) < MaxHeight /\ Len(merkle_defaults) <= MaxHeight
    /\ Fits(index, LowBits)
    /\ path = PathOf(Len(path) + 1, WordValue(index), Len(elements))
    /\ elements = ElementsOf(Len(elements))
    /\ merkle_defaults = DefaultsOf(Len(merkle_defaults))
DefaultsCover == Len(merkle_defaults) >= Len(path) + 1
LeafAbsent == list = None
EntryAbsent == \E k \in 1 .. Len(rpath) : rpath[k] = None
InUpdate == op = "update_root"
InRoot == op = "root"

\* Root of the full bottom-up rebuild with the batch in place.
RebuiltRoot == NodeOf(NewTree(WordValue(index), Len(elements)), Len(path), 0)

\* C1: for a valid non-empty batch, with path the siblings of the ancestors
\* of leaf index, every later leaf empty and defaults the empty-subtree
\* hashes, update_root returns the root of the full rebuild of the tree with
\* the batch in place.  Stated for the runs in which a read through a
\* dangling reference still finds the value once stored, so that the
\* outcome is decided by the arithmetic of the code alone.
C1_BatchUpdateEquivalence ==
    (InUpdate /\ pc = "done" /\ Len(elements) >= 1 /\ BatchFits /\ DefaultsCover
       /\ FromTree /\ ub = "intact")
        => result = RebuiltRoot

\* C2: for every complete binary tree built bottom-up via compress, the
\* single-leaf tree included, and any leaf position, root of the extracted
\* path and the leaf does not abort and is the top value of the tree.
C2_ReconstructionConsistency ==
    (InRoot /\ ~LeafAbsent /\ ~EntryAbsent /\ treeH >= 1
       /\ rpath = RootPathOf(treeH, treeP, {}) /\ list = Some(LeafOf(FullTree(treeH), treeP)))
        => /\ pc # "panic"
           /\ pc = "done" => result = Some(NodeOf(FullTree(treeH), treeH - 1, 0))

\* C3: when the leaf or any path entry is absent, root returns None and
\* does not abort.
C3_RootTotalOnIncompleteInput ==
    (InRoot /\ (LeafAbsent \/ EntryAbsent) /\ pc # "root_check")
        => (pc = "done" /\ result = None /\ panicMsg = "")

\* C3 witness: a present leaf, a path of three entries whose middle entry
\* alone is absent, and None returned.
C3_Witness ==
    /\ InRoot /\ pc = "done" /\ result = None
    /\ ~LeafAbsent /\ Len(rpath) = 3
    /\ rpath[1] # None /\ rpath[2] = None /\ rpath[3] # None

\* C4: whenever index + batchSize > 2^(height-1), update_root ends in the
\* precondition failure: it never gets as far as returning a root.
C4_BoundaryRejection ==
    (InUpdate /\ Len(elements) >= 1 /\ ~BatchFits)
        => (pc # "done" /\ result = NoResult)

\* C5: every compression of root and update_root that combines two nodes of
\* height k is personalized with TreeLevel(k); for a single-leaf batch
\* update_root applies the tags TreeLevel(0), ..., TreeLevel(height-2).
C5_LevelTagging ==
    /\ (InRoot \/ (InUpdate /\ Len(elements) >= 1 /\ BatchFits))
          => \A k \in 1 .. Len(comps) : comps[k][1] = MerkleTree(comps[k][2])
    /\ (InUpdate /\ pc = "done" /\ Len(elements) = 1 /\ BatchFits)
          => [k \in 1 .. Len(comps) |-> comps[k][1]]
               = [k \in 1 .. Len(path) |-> MerkleTree(k - 1)]

\* The accumulator of the path fold after n steps.
RECURSIVE FoldAcc(_, _, _)
FoldAcc(pth, leaf, n) ==
    IF n = 0 THEN leaf
    ELSE LET e == Unwrap(pth[n])
             acc == FoldAcc(pth, leaf, n - 1)
         IN IF e[2] THEN compress(e[1], acc, MerkleTree(n - 1))
            ELSE compress(acc, e[1], MerkleTree(n - 1))

\* C6: for a present leaf and a path of n >= 0 present entries, root returns
\* the accumulator after n fold steps, which starts at the leaf; for the
\* empty path it returns the leaf itself.
C6_PathFold ==
    (InRoot /\ pc = "done" /\ ~LeafAbsent /\ ~EntryAbsent)
        => result = Some(FoldAcc(rpath, Unwrap(list), Len(rpath)))

\* C8: no frame slot is read while it refers to a compression result whose
\* inner-loop iteration has already ended.
C8_FrameOwnership ==
    (InUpdate /\ Len(elements) >= 1 /\ BatchFits)
        => \A r \in reads : r.c.kind = "res" => (r.c.lvl = r.lvl /\ r.c.j = r.j)

\* Number of nodes of height lvl from the even-aligned left neighbour of the
\* ancestor of leaf index to the ancestor of the last leaf of the batch.
SpanCount(lvl) ==
    LET first == ShrBits(index, lvl)
        last == ShrBits(AddSmall(index, Len(elements) - 1), lvl)
        \* last - first is below 2^LowBits: the low bits decide it
        gap == (Low(last) - Low(first) + 2 ^ LowBits) % 2 ^ LowBits
    IN gap + BitOf(first, 0) + 1
CeilHalf(n) == n - (n \div 2)

\* The sizes of the frame of a valid non-empty batch, and what slot 0 refers
\* to after the final level.
FrameSizes ==
    (InUpdate /\ Len(elements) >= 1 /\ BatchFits)
        => /\ pc = "ur_level" => memframesz = SpanCount(i - 1)
           /\ (pc = "ur_level" /\ i = 1) => memframesz = BitOf(index, 0) + Len(elements)
           /\ (pc = "ur_level" /\ i > 1)
                 => memframesz = BitOf(index, i - 1) + CeilHalf(prevSize)
           /\ pc \in {"ur_ret", "done"} => memframesz = 1
           /\ (pc = "ur_ret" /\ height >= 2)
                 => /\ Slot(memframe, 0).kind = "res"
                    /\ Slot(memframe, 0).lvl = height - 1
                    /\ Slot(memframe, 0).j = 0
                    /\ Slot(memframe, 0).v = resSlot

\* The return of a valid non-empty batch of a tree of height >= 2 yields the
\* compression result slot 0 refers to.
ReturnsSlotZero ==
    (InUpdate /\ Len(elements) >= 1 /\ BatchFits /\ height >= 2
       /\ pc = "ur_ret" /\ pc' = "done")
        => result' = Slot(memframe, 0).v

\* C7: for a valid non-empty batch the populated frame size starts at
\* (index mod 2) + len(newLeaves); after level i it is ((index >> i) mod 2) +
\* ceil(prevSize / 2), the number of level-i nodes from the even-aligned left
\* neighbour to the last ancestor of the batch; after the final level it is 1
\* and slot 0 refers to the compression result of that level, which is the
\* value returned.
C7_FrameSize == []FrameSizes /\ [][ReturnsSlotZero]_vars

\* Slots of the frame that hold the new level: the populated ones and the
\* padding slot after an odd count.
LevelSlots == 0 .. (memframesz - 1 + (memframesz % 2))

C10_NoAbortOnValidInput ==
    (InUpdate /\ BatchFits /\ DefaultsCover /\ Len(path) < U32Bits)
        => pc # "panic"

====
